---- MODULE Spec2Model ----
(***************************************************************************)
(* ccm.py, the Core Contact Manager: a contact plan (contacts with a       *)
(* lifecycle state and a loop flag), its temporal queries, the plan        *)
(* loader, and the scheduler loop that applies the due activations and     *)
(* deactivations to the links of an emulation session.                     *)
(***************************************************************************)
EXTENDS Integers, Sequences, FiniteSets, TLC

VARIABLES
  contacts,    \* cp.contacts, keys in insertion order: a sequence of CoreContact
  state,       \* cp.contacts, values: state[i] is the ContactState of contacts[i]
  loop,        \* cp.loop
  argsLoop,    \* args.loop: "None" (no override), "True" or "False"
  links,       \* session.links: a sequence of Link records
  cur_time,    \* cur_time
  next_event,  \* next_event of the current iteration
  pc,          \* where the script is
  todo,        \* what is left of the list the running for loop iterates over
  log,         \* history: the state writes of the current pass
  firstLog,    \* history: the state writes of the first pass
  calls,       \* history: the core.edit_link calls of the current pass
  pass,        \* history: number of "Looping" resets so far
  file,        \* the lines of the plan file given to load()
  ret          \* history: the last plan query made and what it returned

vars == <<contacts, state, loop, argsLoop, links, cur_time, next_event, pc,
          todo, log, firstLog, calls, pass, file, ret>>

(***************************************************************************)
(* Bounds of the model.                                                    *)
(***************************************************************************)
MaxTime == 1
MaxContacts == 2
MaxPass == 1
MaxResets == 2
MaxLines == 2
MaxFields == 9

Times == 0 .. MaxTime

Range(seq) == {seq[k] : k \in 1 .. Len(seq)}

\* Node pairs a contact of the plan may name.
NodePairs == {<<1, 2>>, <<1, 3>>}

\* class CoreContact: one record per CoreContact object.
CoreContact(timespan, nodes, bw, loss, delay, jitter) ==
  [timespan |-> timespan, nodes |-> nodes, bw |-> bw, loss |-> loss,
   delay |-> delay, jitter |-> jitter]

AllContacts ==
  {CoreContact(<<s, e>>, n, 1000, 10, 5, 1) : s \in Times, e \in Times, n \in NodePairs}

Plans == UNION {[1 .. n -> AllContacts] : n \in 0 .. MaxContacts}

\* A Link of the session, with the options the script writes.
Link(n1, n2) ==
  [node1_id |-> n1, node2_id |-> n2,
   options |-> [bandwidth |-> 0, delay |-> 0, loss |-> 0, jitter |-> 0]]

Sessions ==
  { <<Link(2, 1)>>,
    <<Link(1, 3), Link(1, 2)>>,
    <<Link(1, 2), Link(2, 1)>> }

(***************************************************************************)
(* CoreContactPlan: the queries.  A contact is named by its position in    *)
(* the dict; a query returns the list of (contact, state) pairs.  An       *)
(* Optional[int] is <<>> for None and <<v>> for the value v.               *)
(***************************************************************************)
Keys == [i \in 1 .. Len(contacts) |-> i]

Items(cs, st) == [i \in 1 .. Len(cs) |-> <<i, st[i]>>]

\* Mutant: line 86 with > for the second >=.
at_exclusive_end(time) ==
  SelectSeq(Items(contacts, state),
            LAMBDA p : contacts[p[1]].timespan[1] <= time
                       /\ contacts[p[1]].timespan[2] > time)

at(time) ==
  SelectSeq(Items(contacts, state),
            LAMBDA p : contacts[p[1]].timespan[1] <= time
                       /\ contacts[p[1]].timespan[2] >= time)

\* Mutant: the state test of line 92 is left out.
need_activation_any_state(time) == at(time)

\* Mutant: the self.at(time) of line 90 is replaced by all the plan's items.
need_activation_any_time(time) ==
  SelectSeq(Items(contacts, state), LAMBDA p : p[2] = "PRE")

need_activation(time) ==
  SelectSeq(at(time), LAMBDA p : p[2] = "PRE")

\* Mutant: the state test of line 97 is left out.
need_deactivation_any_state(time) ==
  SelectSeq(Items(contacts, state),
            LAMBDA p : time >= contacts[p[1]].timespan[2])

\* Mutant: line 97 with > for >=.
need_deactivation_strict(time) ==
  SelectSeq(Items(contacts, state),
            LAMBDA p : time > contacts[p[1]].timespan[2] /\ p[2] = "LIVE")

need_deactivation(time) ==
  SelectSeq(Items(contacts, state),
            LAMBDA p : time >= contacts[p[1]].timespan[2] /\ p[2] = "LIVE")

\* Mutant: the largest element for the smallest.
RECURSIVE max_for_min(_)
max_for_min(list) ==
  IF Len(list) = 1 THEN list[1]
  ELSE LET m == max_for_min(Tail(list)) IN IF list[1] >= m THEN list[1] ELSE m

RECURSIVE min(_)
min(list) ==
  IF Len(list) = 1 THEN list[1]
  ELSE LET m == min(Tail(list)) IN IF list[1] <= m THEN list[1] ELSE m

StartOf(i) == contacts[i].timespan[1]
EndOf(i) == contacts[i].timespan[2]

\* Mutant: line 102 with > for >=.
next_activation_strict(time) ==
  LET sel == SelectSeq(Keys, LAMBDA i : state[i] = "PRE" /\ StartOf(i) > time)
      activations == [k \in 1 .. Len(sel) |-> StartOf(sel[k])]
  IN IF Len(activations) = 0 THEN <<>> ELSE <<min(activations)>>

next_activation(time) ==
  LET sel == SelectSeq(Keys, LAMBDA i : state[i] = "PRE" /\ StartOf(i) >= time)
      activations == [k \in 1 .. Len(sel) |-> StartOf(sel[k])]
  IN IF Len(activations) = 0 THEN <<>> ELSE <<min(activations)>>

next_deactivation(time) ==
  LET sel == SelectSeq(Keys, LAMBDA i : state[i] = "LIVE" /\ EndOf(i) >= time)
      deactivations == [k \in 1 .. Len(sel) |-> EndOf(sel[k])]
  IN IF Len(deactivations) = 0 THEN <<>> ELSE <<min(deactivations)>>

RECURSIVE resetFrom(_, _)
resetFrom(st, i) ==
  IF i > Len(st) THEN st ELSE resetFrom([st EXCEPT ![i] = "PRE"], i + 1)

\* Mutant: line 119 leaves a POST contact as it is.
reset_keeps_post(st) ==
  [i \in 1 .. Len(st) |-> IF st[i] = "POST" THEN "POST" ELSE "PRE"]

\* Mutant: the loop of line 118 misses the first contact.
reset_skips_first(st) == resetFrom(st, 2)

reset(st) == resetFrom(st, 1)

(***************************************************************************)
(* find_link: the position in links of the first link between the two      *)
(* nodes, in either direction; <<>> for None.                              *)
(***************************************************************************)
RECURSIVE findFrom(_, _, _, _)
findFrom(ls, k, node1, node2) ==
  IF k > Len(ls) THEN <<>>
  ELSE IF \/ (ls[k].node1_id = node1 /\ ls[k].node2_id = node2)
          \/ (ls[k].node1_id = node2 /\ ls[k].node2_id = node1)
       THEN <<k>>
       ELSE findFrom(ls, k + 1, node1, node2)

find_link(ls, node1, node2) == findFrom(ls, 1, node1, node2)

\* ret before any query is made.
NoCall == [op |-> "none", time |-> 0, value |-> <<>>]

(***************************************************************************)
(* The scheduler loop.                                                     *)
(***************************************************************************)
Init ==
  /\ contacts \in Plans
  /\ state = [i \in 1 .. Len(contacts) |-> "PRE"]
  /\ loop \in BOOLEAN
  /\ argsLoop \in {"None", "True", "False"}
  /\ links \in Sessions
  /\ cur_time = 0
  /\ next_event = 0
  /\ pc = "loop"
  /\ todo = <<>>
  /\ log = <<>>
  /\ firstLog = <<>>
  /\ calls = <<>>
  /\ pass = 0
  /\ file = <<>>
  /\ ret = NoCall

\* The test of line 147.
\* Mutant: line 147 with or for and.
NoEvents_either == next_activation(cur_time) = <<>> \/ next_deactivation(cur_time) = <<>>

NoEvents == next_activation(cur_time) = <<>> /\ next_deactivation(cur_time) = <<>>

\* cp.loop or args.loop
LoopEnabled == loop \/ argsLoop = "True"

planVars == <<contacts, loop, argsLoop, file, ret>>

\* Lines 147-152: end of the timeline with looping on.
Looping ==
  /\ pc = "loop"
  /\ NoEvents
  /\ LoopEnabled
  /\ pass < MaxPass
  /\ cur_time' = 0
  /\ state' = reset(state)
  /\ pass' = pass + 1
  /\ firstLog' = IF pass = 0 THEN log ELSE firstLog
  /\ log' = <<>>
  /\ calls' = <<>>
  /\ UNCHANGED <<planVars, links, next_event, pc, todo>>

\* Lines 147, 153-155: end of the timeline with looping off.
NoMoreEvents ==
  /\ pc = "loop"
  /\ NoEvents
  /\ ~LoopEnabled
  /\ pc' = "done"
  /\ UNCHANGED <<planVars, state, links, cur_time, next_event, todo, log,
                 firstLog, calls, pass>>

\* Lines 157-161: the next event is computed and the script goes to sleep.
NextEvent ==
  /\ pc = "loop"
  /\ ~NoEvents
  /\ next_event' = min(next_activation(cur_time) \o next_deactivation(cur_time))
  /\ pc' = "sleep"
  /\ UNCHANGED <<planVars, state, links, cur_time, todo, log, firstLog, calls,
                 pass>>

\* Mutant: lines 161 and 162 in the other order, cur_time is assigned before
\* the sleep.
Interrupt_after_advance ==
  /\ pc = "sleep"
  /\ pc' = "interrupted"
  /\ cur_time' = next_event
  /\ UNCHANGED <<planVars, state, links, next_event, todo, log, firstLog,
                 calls, pass>>

\* Line 161: time.sleep is interrupted (KeyboardInterrupt ends the script).
Interrupt ==
  /\ pc = "sleep"
  /\ pc' = "interrupted"
  /\ UNCHANGED <<planVars, state, links, cur_time, next_event, todo, log,
                 firstLog, calls, pass>>

\* Mutant: line 162 assigns sleep_time for next_event.
Wake_to_sleep_time ==
  /\ pc = "sleep"
  /\ cur_time' = next_event - cur_time
  /\ todo' = need_activation(next_event - cur_time)
  /\ pc' = "activating"
  /\ UNCHANGED <<planVars, state, links, next_event, log, firstLog, calls, pass>>

\* Lines 161-163: the sleep returns, the time is advanced and the list of
\* activations is built.
Wake ==
  /\ pc = "sleep"
  /\ cur_time' = next_event
  /\ todo' = need_activation(next_event)
  /\ pc' = "activating"
  /\ UNCHANGED <<planVars, state, links, next_event, log, firstLog, calls, pass>>

\* Lines 171-174: the link's options after an activation.
activated(link, contact) ==
  [link EXCEPT !.options = [bandwidth |-> contact.bw, delay |-> contact.delay,
                            loss |-> contact.loss, jitter |-> contact.jitter]]

\* Mutant: the deactivation also takes the bandwidth away.
deactivated_without_bandwidth(link) ==
  [link EXCEPT !.options.loss = 100, !.options.bandwidth = 0]

\* Line 187: the link's options after a deactivation.
deactivated(link) == [link EXCEPT !.options.loss = 100]

\* Lines 163-177: one iteration of the activation loop.  core.edit_link either
\* returns or raises; nothing catches the exception.
Activate ==
  /\ pc = "activating"
  /\ todo # <<>>
  /\ LET c == Head(todo)[1]
         link == find_link(links, contacts[c].nodes[1], contacts[c].nodes[2])
     IN IF link = <<>>
        THEN /\ todo' = Tail(todo)
             /\ UNCHANGED <<state, links, log, calls, pc>>
        ELSE /\ links' = [links EXCEPT ![link[1]] = activated(@, contacts[c])]
             /\ calls' = Append(calls, [time |-> cur_time, contact |-> c,
                                        link |-> link[1], op |-> "activate"])
             /\ \E ok \in BOOLEAN :
                  IF ok
                  THEN /\ state' = [state EXCEPT ![c] = "LIVE"]
                       /\ log' = Append(log, [time |-> cur_time, contact |-> c,
                                              to |-> "LIVE"])
                       /\ todo' = Tail(todo)
                       /\ pc' = pc
                  ELSE /\ pc' = "crashed"
                       /\ UNCHANGED <<state, log, todo>>
  /\ UNCHANGED <<planVars, cur_time, next_event, firstLog, pass>>

\* Line 179: the activation loop is over, the list of deactivations is built.
ActivationsDone ==
  /\ pc = "activating"
  /\ todo = <<>>
  /\ todo' = need_deactivation(cur_time)
  /\ pc' = "deactivating"
  /\ UNCHANGED <<planVars, state, links, cur_time, next_event, log, firstLog,
                 calls, pass>>

\* Lines 179-189: one iteration of the deactivation loop.
Deactivate ==
  /\ pc = "deactivating"
  /\ todo # <<>>
  /\ LET c == Head(todo)[1]
         link == find_link(links, contacts[c].nodes[1], contacts[c].nodes[2])
     IN IF link = <<>>
        THEN /\ todo' = Tail(todo)
             /\ UNCHANGED <<state, links, log, calls, pc>>
        ELSE /\ links' = [links EXCEPT ![link[1]] = deactivated(@)]
             /\ calls' = Append(calls, [time |-> cur_time, contact |-> c,
                                        link |-> link[1], op |-> "deactivate"])
             /\ \E ok \in BOOLEAN :
                  IF ok
                  THEN /\ state' = [state EXCEPT ![c] = "POST"]
                       /\ log' = Append(log, [time |-> cur_time, contact |-> c,
                                              to |-> "POST"])
                       /\ todo' = Tail(todo)
                       /\ pc' = pc
                  ELSE /\ pc' = "crashed"
                       /\ UNCHANGED <<state, log, todo>>
  /\ UNCHANGED <<planVars, cur_time, next_event, firstLog, pass>>

\* The deactivation loop is over: back to line 146.
DeactivationsDone ==
  /\ pc = "deactivating"
  /\ todo = <<>>
  /\ pc' = "loop"
  /\ UNCHANGED <<planVars, state, links, cur_time, next_event, todo, log,
                 firstLog, calls, pass>>

Next ==
  \/ Looping
  \/ NoMoreEvents
  \/ NextEvent
  \/ Interrupt
  \/ Wake
  \/ Activate
  \/ ActivationsDone
  \/ Deactivate
  \/ DeactivationsDone

Spec == Init /\ [][Next]_vars

\* The script is one sequential process: while it has a next statement it
\* executes it.
LiveSpec == Init /\ [][Next]_vars /\ WF_vars(Next)

(***************************************************************************)
(* The plan on its own: a CoreContactPlan built from a dict of contacts in *)
(* any states (lines 55-59), queried and reset by a caller.                *)
(***************************************************************************)
ContactState == {"PRE", "LIVE", "POST"}

QueryTimes == 0 .. MaxTime + 1

\* The plans the queries are made on: the node pair plays no part in them.
QueriedPlans == {p \in Plans : \A i \in 1 .. Len(p) : p[i].nodes = <<1, 2>>}

PlanInit ==
  /\ contacts \in QueriedPlans
  /\ state \in [1 .. Len(contacts) -> ContactState]
  /\ loop \in BOOLEAN
  /\ argsLoop = "None"
  /\ links = <<>>
  /\ cur_time = 0
  /\ next_event = 0
  /\ pc = "plan"
  /\ todo = <<>>
  /\ log = <<>>
  /\ firstLog = <<>>
  /\ calls = <<>>
  /\ pass = 0
  /\ file = <<>>
  /\ ret = NoCall

schedVars == <<argsLoop, links, cur_time, next_event, pc, todo, log, firstLog,
               calls, file>>

Query(op, t, value) ==
  /\ pc = "plan"
  /\ ret' = [op |-> op, time |-> t, value |-> value]
  /\ UNCHANGED <<contacts, state, loop, pass, schedVars>>

CallAt == \E t \in QueryTimes : Query("at", t, at(t))

CallNeedActivation ==
  \E t \in QueryTimes : Query("need_activation", t, need_activation(t))

CallNeedDeactivation ==
  \E t \in QueryTimes : Query("need_deactivation", t, need_deactivation(t))

CallNextActivation ==
  \E t \in QueryTimes : Query("next_activation", t, next_activation(t))

CallNextDeactivation ==
  \E t \in QueryTimes : Query("next_deactivation", t, next_deactivation(t))

\* cp.reset(); ret.value lists the states the plan had before each of the
\* resets made in a row.
CallReset ==
  /\ pc = "plan"
  /\ pass < MaxResets
  /\ state' = reset(state)
  /\ pass' = pass + 1
  /\ ret' = [op |-> "reset", time |-> 0,
             value |-> IF ret.op = "reset" THEN Append(ret.value, state)
                       ELSE <<state>>]
  /\ UNCHANGED <<contacts, loop, schedVars>>

PlanNext ==
  \/ CallAt
  \/ CallNeedActivation
  \/ CallNeedDeactivation
  \/ CallNextActivation
  \/ CallNextDeactivation
  \/ CallReset

PlanSpec == PlanInit /\ [][PlanNext]_vars

(***************************************************************************)
(* The plan file.  A line is the sequence of its characters, a field a     *)
(* sequence of characters without whitespace.                              *)
(***************************************************************************)
Whitespace == {" ", "\t", "\n"}

RECURSIVE lstrip(_)
lstrip(l) == IF l # <<>> /\ Head(l) \in Whitespace THEN lstrip(Tail(l)) ELSE l

RECURSIVE rstrip(_)
rstrip(l) ==
  IF l # <<>> /\ l[Len(l)] \in Whitespace THEN rstrip(SubSeq(l, 1, Len(l) - 1))
  ELSE l

\* str.strip()
strip(l) == rstrip(lstrip(l))

\* Length of the word a line without leading whitespace starts with.
RECURSIVE wordLen(_)
wordLen(l) ==
  IF l = <<>> \/ Head(l) \in Whitespace THEN 0 ELSE 1 + wordLen(Tail(l))

\* str.split()
RECURSIVE split(_)
split(l) ==
  LET s == lstrip(l) IN
  IF s = <<>> THEN <<>>
  ELSE <<SubSeq(s, 1, wordLen(s))>> \o split(SubSeq(s, wordLen(s) + 1, Len(s)))

\* str.startswith(prefix)
startswith(l, prefix) ==
  Len(l) >= Len(prefix) /\ SubSeq(l, 1, Len(prefix)) = prefix

Digits == <<"0", "1", "2", "3", "4", "5", "6", "7", "8", "9">>

IsDigits(w) == w # <<>> /\ \A k \in 1 .. Len(w) : w[k] \in Range(Digits)

DigitValue(c) == (CHOOSE k \in 1 .. Len(Digits) : Digits[k] = c) - 1

RECURSIVE Decimal(_)
Decimal(w) ==
  IF w = <<>> THEN 0
  ELSE 10 * Decimal(SubSeq(w, 1, Len(w) - 1)) + DigitValue(w[Len(w)])

Signed(w) == w # <<>> /\ Head(w) \in {"-", "+"}

Unsigned(w) == IF Signed(w) THEN Tail(w) ELSE w

Sign(w) == IF w # <<>> /\ Head(w) = "-" THEN -1 ELSE 1

\* int(field): <<v>>, or <<>> for ValueError.  A sign and decimal digits.
int(w) ==
  IF IsDigits(Unsigned(w)) THEN <<Sign(w) * Decimal(Unsigned(w))>> ELSE <<>>

\* Trailing zeros of a fraction do not count.
RECURSIVE Significant(_)
Significant(w) ==
  IF w # <<>> /\ w[Len(w)] = "0" THEN Significant(SubSeq(w, 1, Len(w) - 1)) ELSE w

\* float(field): <<v>>, or <<>> for ValueError.  A sign, decimal digits and at
\* most one point, with a digit on one side of it at least.  A value without
\* a fraction is the integer; another one is its units and its fraction.
float(w) ==
  LET u == Unsigned(w)
      dots == {k \in 1 .. Len(u) : u[k] = "."}
      dot == IF dots = {} THEN Len(u) + 1 ELSE CHOOSE k \in dots : TRUE
      units == SubSeq(u, 1, dot - 1)
      fraction == SubSeq(u, dot + 1, Len(u))
  IN IF /\ Cardinality(dots) <= 1
        /\ units \o fraction # <<>>
        /\ \A k \in 1 .. Len(units \o fraction) :
             (units \o fraction)[k] \in Range(Digits)
     THEN IF Significant(fraction) = <<>>
          THEN <<Sign(w) * Decimal(units)>>
          ELSE <<[sign |-> Sign(w), units |-> Decimal(units),
                  fraction |-> Significant(fraction)]>>
     ELSE <<>>

A_CONTACT == <<"a", " ", "c", "o", "n", "t", "a", "c", "t">>

\* CoreContact.from_string: <<contact>>, or <<>> for ValueError.
from_string(line) ==
  LET l1 == strip(line)
      l2 == IF startswith(l1, A_CONTACT)
            THEN strip(SubSeq(l1, Len(A_CONTACT) + 1, Len(l1)))
            ELSE l1
      fields == split(l2)
  IN IF Len(fields) # 8 THEN <<>>
     ELSE IF \/ \E k \in {1, 2, 3, 4, 5, 7, 8} : int(fields[k]) = <<>>
             \/ float(fields[6]) = <<>>
          THEN <<>>
          ELSE <<CoreContact(<<int(fields[1])[1], int(fields[2])[1]>>,
                             <<int(fields[3])[1], int(fields[4])[1]>>,
                             int(fields[5])[1], float(fields[6])[1],
                             int(fields[7])[1], int(fields[8])[1])>>

\* CoreContactPlan.load from line k on: lp is self.loop and cs the local
\* dict contacts so far.  raised tells that from_string raised ValueError.
RECURSIVE loadFrom(_, _, _, _)
loadFrom(f, k, lp, cs) ==
  IF k > Len(f) THEN [raised |-> FALSE, loop |-> lp, contacts |-> cs]
  ELSE LET fields == split(strip(f[k])) IN
       IF Len(fields) = 3 /\ fields[1] = <<"s">>
       THEN IF fields[2] = <<"l", "o", "o", "p">>
            THEN loadFrom(f, k + 1, fields[3] = <<"1">>, cs)
            ELSE loadFrom(f, k + 1, lp, cs)
       ELSE IF Len(fields) > 4 /\ fields[1] = <<"a">>
            THEN IF fields[2] = <<"c", "o", "n", "t", "a", "c", "t">>
                 THEN IF from_string(strip(f[k])) = <<>>
                      THEN [raised |-> TRUE, loop |-> lp, contacts |-> cs]
                      ELSE loadFrom(f, k + 1, lp,
                                    Append(cs, from_string(strip(f[k]))[1]))
                 ELSE loadFrom(f, k + 1, lp, cs)
            ELSE loadFrom(f, k + 1, lp, cs)

load(f, lp) == loadFrom(f, 1, lp, <<>>)

(***************************************************************************)
(* The plan files of the model: up to MaxLines lines, each a loop          *)
(* directive, a contact directive of 0 to MaxFields fields (well formed,   *)
(* or with one field that is not a number of the kind expected there), or  *)
(* a line that is neither.                                                 *)
(***************************************************************************)
RECURSIVE Join(_, _, _)
Join(words, first, sep) ==
  IF words = <<>> THEN <<"\n">>
  ELSE IF Len(words) = 1 THEN Head(words) \o <<"\n">>
  ELSE Head(words) \o first \o Join(Tail(words), sep, sep)

W_a == <<"a">>
W_s == <<"s">>
W_contact == <<"c", "o", "n", "t", "a", "c", "t">>
W_loop == <<"l", "o", "o", "p">>
W_range == <<"r", "a", "n", "g", "e">>

SampleFields ==
  { <<<<"0">>, <<"1">>, <<"1">>, <<"2">>, <<"1", "0", "0", "0">>,
      <<"0", ".", "0">>, <<"5">>, <<"1">>>>,
    <<<<"1">>, <<"2">>, <<"2">>, <<"1">>, <<"1", "0", "0", "0">>,
      <<"1", "0">>, <<"5">>, <<"1">>>> }

\* The first n fields of a sample, padded with "7" beyond the eighth.
FieldsOf(sample, n) == [k \in 1 .. n |-> IF k <= 8 THEN sample[k] ELSE <<"7">>]

BadFields == {<<"x">>, <<"0", ".", "5">>}

Gaps == {<<" ">>, <<"\t">>}

ContactLines ==
  {Join(<<W_a, W_contact>> \o FieldsOf(sm, n), gap, <<" ">>) :
     sm \in SampleFields, n \in 0 .. MaxFields, gap \in Gaps}
  \cup
  {Join(<<W_a, W_contact>> \o [FieldsOf(sm, 8) EXCEPT ![k] = bad], <<" ">>, <<" ">>) :
     sm \in SampleFields, k \in {1, 5, 6}, bad \in BadFields}

OtherLines ==
  { Join(<<W_s, W_loop, <<"0">>>>, <<" ">>, <<" ">>),
    Join(<<W_s, W_loop, <<"1">>>>, <<" ">>, <<" ">>),
    Join(<<W_a, W_range, <<"0">>, <<"1">>, <<"1">>, <<"2">>, <<"5">>>>, <<" ">>, <<" ">>),
    Join(<<<<"#">>, W_a, W_contact>>, <<" ">>, <<" ">>),
    Join(<<>>, <<" ">>, <<" ">>) }

Lines == ContactLines \cup OtherLines

Files == UNION {[1 .. n -> Lines] : n \in 0 .. MaxLines}

\* cp = CoreContactPlan(args.file), before load is called (lines 55-59).
LoadInit ==
  /\ file \in Files
  /\ contacts = <<>>
  /\ state = <<>>
  /\ loop = FALSE
  /\ argsLoop = "None"
  /\ links = <<>>
  /\ cur_time = 0
  /\ next_event = 0
  /\ pc = "load"
  /\ todo = <<>>
  /\ log = <<>>
  /\ firstLog = <<>>
  /\ calls = <<>>
  /\ pass = 0
  /\ ret = NoCall

\* self.load(filename): the plan is loaded, or ValueError ends the script
\* with self.contacts as it was.
Load ==
  /\ pc = "load"
  /\ LET r == load(file, loop) IN
       /\ loop' = r.loop
       /\ IF r.raised
          THEN /\ pc' = "load_error"
               /\ UNCHANGED <<contacts, state>>
          ELSE /\ pc' = "loaded"
               /\ contacts' = r.contacts
               /\ state' = [i \in 1 .. Len(r.contacts) |-> "PRE"]
  /\ UNCHANGED <<argsLoop, links, cur_time, next_event, todo, log, firstLog,
                 calls, pass, file, ret>>

LoadNext == Load

LoadSpec == LoadInit /\ [][LoadNext]_vars

(***************************************************************************)
(* Vocabulary of the properties.                                           *)
(***************************************************************************)
Count(lg, i, to) ==
  Cardinality({k \in 1 .. Len(lg) : lg[k].contact = i /\ lg[k].to = to})

CallCount(cl, i, op) ==
  Cardinality({k \in 1 .. Len(cl) : cl[k].contact = i /\ cl[k].op = op})

HasLink(i) == find_link(links, contacts[i].nodes[1], contacts[i].nodes[2]) # <<>>

IsPrefix(a, b) == Len(a) <= Len(b) /\ \A k \in 1 .. Len(a) : a[k] = b[k]

\* The step is the reset of the loop branch (lines 150-151).
ResetStep == pass' = pass + 1

\* The script is at line 147 and finds no more events: a pass is over.
EndOfPass == pc = "loop" /\ NoEvents

(***************************************************************************)
(* C1: a contact's state only changes PRE -> LIVE and LIVE -> POST, except *)
(* that the reset of the loop branch sets it to PRE; within one pass no    *)
(* contact is set to LIVE twice or to POST twice; POST is left only by     *)
(* the reset.                                                              *)
(***************************************************************************)
C1_Lifecycle ==
  [][\A i \in 1 .. Len(contacts) :
       /\ state'[i] # state[i] =>
            \/ state[i] = "PRE" /\ state'[i] = "LIVE"
            \/ state[i] = "LIVE" /\ state'[i] = "POST"
            \/ ResetStep /\ state'[i] = "PRE"
       /\ state[i] = "POST" /\ ~ResetStep => state'[i] = "POST"
       /\ Count(log', i, "LIVE") <= 1
       /\ Count(log', i, "POST") <= 1
       /\ Len(log') > Len(log) /\ log'[Len(log')].contact = i =>
            state[i] = (IF log'[Len(log')].to = "LIVE" THEN "PRE" ELSE "LIVE")
    ]_vars

\* A second pass in which a contact has gone through PRE, LIVE and POST again.
C1_Witness ==
  /\ pass = 1
  /\ \E i \in 1 .. Len(contacts) :
       /\ state[i] = "POST"
       /\ Count(log, i, "LIVE") = 1
       /\ Count(log, i, "POST") = 1
       /\ Count(firstLog, i, "POST") = 1

(***************************************************************************)
(* C2: with looping off and a plan of contacts with 0 <= start <= end,     *)
(* whatever the links of the session, the loop reaches the "No more        *)
(* events" exit, where next_activation and next_deactivation are None      *)
(* (runs ended by a failing edit_link or an interrupted sleep set aside).  *)
(***************************************************************************)
ValidPlan ==
  \A i \in 1 .. Len(contacts) : 0 <= StartOf(i) /\ StartOf(i) <= EndOf(i)

C2_Terminates ==
  (~LoopEnabled /\ ValidPlan) =>
     <>((pc = "done" /\ NoEvents) \/ pc = "crashed" \/ pc = "interrupted")

(***************************************************************************)
(* C3: when cur_time is advanced from t to a larger value, or reset, or    *)
(* the loop ends, no contact whose link exists is PRE with                 *)
(* start <= t <= end and none is LIVE with end <= t.                       *)
(***************************************************************************)
NothingDue(t) ==
  \A i \in 1 .. Len(contacts) :
    HasLink(i) =>
      /\ ~(state[i] = "PRE" /\ StartOf(i) <= t /\ t <= EndOf(i))
      /\ ~(state[i] = "LIVE" /\ EndOf(i) <= t)

C3_NoEventSkipped ==
  [][(cur_time' > cur_time \/ ResetStep \/ (pc # "done" /\ pc' = "done"))
       => NothingDue(cur_time)]_vars

\* Time has moved past the common start of two contacts, both activated.
C3_Witness ==
  \E i, j \in 1 .. Len(contacts) :
    /\ i # j
    /\ StartOf(i) = StartOf(j)
    /\ cur_time > StartOf(i)
    /\ Count(log, i, "LIVE") = 1
    /\ Count(log, j, "LIVE") = 1

(***************************************************************************)
(* C4: with looping on, the end of a pass sets cur_time to 0 and every     *)
(* contact to PRE and the loop goes on; every later pass makes the state   *)
(* writes of the first pass, in the same order at the same times.          *)
(***************************************************************************)
C4_LoopReplays ==
  [][/\ (EndOfPass /\ LoopEnabled) =>
          /\ cur_time' = 0
          /\ \A i \in 1 .. Len(contacts) : state'[i] = "PRE"
          /\ pc' = "loop"
     /\ pass' >= 1 =>
          /\ IsPrefix(log', firstLog')
          /\ EndOfPass' => log' = firstLog'
    ]_vars

\* The second pass is over and has made the two or more writes of the first.
C4_Witness ==
  /\ pass = 1
  /\ EndOfPass
  /\ Len(log) >= 2
  /\ log = firstLog

(***************************************************************************)
(* C5: when the contact being activated has no link in the session, its    *)
(* state is set to LIVE all the same.                                      *)
(***************************************************************************)
C5_LiveWithoutLink ==
  [][(pc = "activating" /\ todo # <<>> /\ ~HasLink(Head(todo)[1]))
       => state'[Head(todo)[1]] = "LIVE"]_vars

(***************************************************************************)
(* C6: a failing edit_link does not stop the scheduler loop.               *)
(***************************************************************************)
C6_FailureConfined == pc # "crashed"

(***************************************************************************)
(* C7: a plan file with a contact directive (a line whose first words are  *)
(* "a" and "contact") of other than 8 fields is not loaded: load fails     *)
(* and no contact of the file is in the plan.                              *)
(***************************************************************************)
IsContactDirective(line) ==
  /\ Len(split(line)) >= 2
  /\ split(line)[1] = W_a
  /\ split(line)[2] = W_contact

FieldCount(line) == Len(split(line)) - 2

C7_MalformedContactFails ==
  (/\ pc \in {"loaded", "load_error"}
   /\ \E k \in 1 .. Len(file) :
        IsContactDirective(file[k]) /\ FieldCount(file[k]) # 8)
  => (pc = "load_error" /\ contacts = <<>>)

(***************************************************************************)
(* C8: at(t) is the contacts with start <= t <= end, whatever their state, *)
(* each once and with its state; need_activation(t) is those of them that  *)
(* are PRE, so it is a subset of at(t).                                    *)
(***************************************************************************)
Spanning(t) == {i \in 1 .. Len(contacts) : StartOf(i) <= t /\ t <= EndOf(i)}

C8_AtAndNeedActivation ==
  /\ ret.op = "at" =>
       /\ Range(ret.value) = {<<i, state[i]>> : i \in Spanning(ret.time)}
       /\ Len(ret.value) = Cardinality(Spanning(ret.time))
  /\ ret.op = "need_activation" =>
       /\ Range(ret.value) =
            {<<i, "PRE">> : i \in {j \in Spanning(ret.time) : state[j] = "PRE"}}
       /\ Len(ret.value) = Cardinality(Range(ret.value))
       /\ Range(ret.value) \subseteq Range(at(ret.time))

\* need_activation(t) with t the end of a contact it returns, and at(t)
\* holding a contact that is not PRE as well.
C8_Witness ==
  /\ ret.op = "need_activation"
  /\ \E p \in Range(ret.value) : EndOf(p[1]) = ret.time
  /\ \E q \in Range(at(ret.time)) : q[2] # "PRE"

(***************************************************************************)
(* C9: need_deactivation(t) is the contacts that are LIVE with end <= t,   *)
(* and in one pass a contact is deactivated once: one deactivate call and  *)
(* one write of POST, made for every contact when the pass ends.           *)
(***************************************************************************)
C9_DeactivatedOnce ==
  /\ \A t \in 0 .. MaxTime + 1 :
       /\ Range(need_deactivation(t)) =
            {<<i, "LIVE">> : i \in {j \in 1 .. Len(contacts) :
                                      EndOf(j) <= t /\ state[j] = "LIVE"}}
       /\ Len(need_deactivation(t)) = Cardinality(Range(need_deactivation(t)))
  /\ \A i \in 1 .. Len(contacts) :
       /\ Count(log, i, "POST") <= 1
       /\ CallCount(calls, i, "deactivate") <= 1
       /\ state[i] = "POST" <=> Count(log, i, "POST") = 1
       /\ state[i] = "POST" => CallCount(calls, i, "deactivate") = 1
       /\ EndOfPass => Count(log, i, "POST") = 1

\* The loop has ended at a time later than the end of a deactivated contact.
C9_Witness ==
  /\ pc = "done"
  /\ \E i \in 1 .. Len(contacts) :
       /\ state[i] = "POST"
       /\ EndOf(i) < cur_time
       /\ CallCount(calls, i, "deactivate") = 1

(***************************************************************************)
(* C10: reset() sets every contact to PRE whatever the states were, leaves *)
(* the contacts and the loop flag alone, and a second reset() changes      *)
(* nothing.                                                                *)
(***************************************************************************)
C10_Reset ==
  [][ResetStep =>
       /\ Len(state') = Len(contacts)
       /\ \A i \in 1 .. Len(contacts) : state'[i] = "PRE"
       /\ contacts' = contacts
       /\ loop' = loop
       /\ reset(state') = state'
       /\ ret.op = "reset" => state' = state
    ]_vars

\* Two resets in a row, the first of a plan with a LIVE and a POST contact.
C10_Witness ==
  /\ ret.op = "reset"
  /\ Len(ret.value) = 2
  /\ {"LIVE", "POST"} \subseteq Range(ret.value[1])
  /\ Range(ret.value[2]) = {"PRE"}
  /\ Range(state) = {"PRE"}

(***************************************************************************)
(* C11: contacts have value identity: a plan file with two contact         *)
(* directives of the same field values gives one entry of the plan, so     *)
(* the loaded plan has one entry for each distinct contact directive.      *)
(***************************************************************************)
LoadedDirectives ==
  {k \in 1 .. Len(file) : IsContactDirective(file[k]) /\ FieldCount(file[k]) = 8}

C11_ValueIdentity ==
  pc = "loaded" =>
    Len(contacts) = Cardinality({split(file[k]) : k \in LoadedDirectives})

(***************************************************************************)
(* C12: when the sleep before the next event is interrupted, no contact's  *)
(* state is changed, cur_time is not advanced and no edit_link call is     *)
(* made, then or later: nothing of the target time is marked as done.      *)
(***************************************************************************)
C12_InterruptedWait ==
  [][/\ (pc = "sleep" /\ pc' = "interrupted") =>
          /\ state' = state
          /\ cur_time' = cur_time
          /\ calls' = calls
          /\ links' = links
          /\ log' = log
     /\ pc = "interrupted" => UNCHANGED <<state, cur_time, calls, links, log>>
     /\ (pc' = "interrupted" /\ cur_time' < next_event') =>
          /\ \A k \in 1 .. Len(log') : log'[k].time < next_event'
          /\ \A k \in 1 .. Len(calls') : calls'[k].time < next_event'
    ]_vars

\* The wait for the events of time 1 was interrupted at time 0, with a contact
\* to activate and a contact to deactivate at time 1.
C12_Witness ==
  /\ pc = "interrupted"
  /\ cur_time < next_event
  /\ \E i, j \in 1 .. Len(contacts) :
       /\ state[i] = "PRE" /\ StartOf(i) = next_event
       /\ state[j] = "LIVE" /\ EndOf(j) = next_event

(***************************************************************************)
(* C13: the override args.loop, when given, decides whether the scheduler  *)
(* loops at the end of the plan, whatever the plan's loop flag; without    *)
(* an override the plan's loop flag decides.                               *)
(***************************************************************************)
OverriddenLoop == IF argsLoop = "None" THEN loop ELSE argsLoop = "True"

C13_OverrideDecides ==
  [][EndOfPass => (ResetStep <=> OverriddenLoop)]_vars

(***************************************************************************)
(* C14: in a tick the activations due at cur_time are applied before the   *)
(* deactivations due at cur_time, so a contact with start = end goes PRE,  *)
(* LIVE, POST in one tick; the wait is made whenever there is a next       *)
(* event, also when it lasts 0.                                            *)
(***************************************************************************)
ActivationsFirst(lg) ==
  \A k, l \in 1 .. Len(lg) :
    (k < l /\ lg[k].time = lg[l].time) => ~(lg[k].to = "POST" /\ lg[l].to = "LIVE")

TimeOf(lg, i, to) ==
  lg[CHOOSE k \in 1 .. Len(lg) : lg[k].contact = i /\ lg[k].to = to].time

C14_ActivationsBeforeDeactivations ==
  [][/\ (pc = "loop" /\ ~NoEvents) => (pc' = "sleep" /\ next_event' >= cur_time)
     /\ ActivationsFirst(log')
     /\ pc' = "deactivating" =>
          \A i \in 1 .. Len(contacts) :
            HasLink(i) =>
              ~(state'[i] = "PRE" /\ StartOf(i) <= cur_time' /\ cur_time' <= EndOf(i))
     /\ pc' = "loop" =>
          \A i \in 1 .. Len(contacts) :
            /\ ~(state'[i] = "LIVE" /\ StartOf(i) = EndOf(i))
            /\ (state'[i] = "POST" /\ StartOf(i) = EndOf(i)) =>
                 TimeOf(log', i, "LIVE") = TimeOf(log', i, "POST")
    ]_vars

\* At time 0, reached by a wait of 0, a contact with start = end = 0 was
\* deactivated after another contact was activated.
C14_Witness ==
  /\ cur_time = 0
  /\ \E i, j \in 1 .. Len(contacts) :
       /\ i # j
       /\ StartOf(i) = 0 /\ EndOf(i) = 0
       /\ state[i] = "POST"
       /\ state[j] = "LIVE"
       /\ log[Len(log)] = [time |-> 0, contact |-> i, to |-> "POST"]

(***************************************************************************)
(* C15: cur_time never decreases from one iteration to the next, except    *)
(* that the loop branch resets it to 0; the wait next_event - cur_time is  *)
(* never negative.                                                         *)
(***************************************************************************)
C15_TimeMonotonic ==
  [][/\ cur_time' >= cur_time \/ (ResetStep /\ cur_time' = 0)
     /\ pc' = "sleep" => next_event' - cur_time' >= 0
    ]_vars

\* A second pass has advanced to time 1 again after the reset to 0.
C15_Witness ==
  /\ pass = 1
  /\ cur_time = 1
  /\ firstLog # <<>>
  /\ firstLog[Len(firstLog)].time = 1

(***************************************************************************)
(* C16: the time the scheduler advances to is the least of the starts of   *)
(* the PRE contacts with start >= cur_time and the ends of the LIVE        *)
(* contacts with end >= cur_time; next_activation and next_deactivation    *)
(* are None exactly when their set is empty.                               *)
(***************************************************************************)
PendingStarts(t) ==
  {StartOf(i) : i \in {j \in 1 .. Len(contacts) : state[j] = "PRE" /\ StartOf(j) >= t}}

PendingEnds(t) ==
  {EndOf(i) : i \in {j \in 1 .. Len(contacts) : state[j] = "LIVE" /\ EndOf(j) >= t}}

Least(S) == CHOOSE m \in S : \A x \in S : m <= x

C16_NextEventIsMinimum ==
  [][/\ (pc = "sleep" /\ pc' = "activating") =>
          cur_time' = Least(PendingStarts(cur_time) \cup PendingEnds(cur_time))
     /\ (pc = "loop" /\ pc' = "sleep") =>
          next_event' = Least(PendingStarts(cur_time) \cup PendingEnds(cur_time))
     /\ \A t \in QueryTimes :
          LET activation == next_activation(t)
              deactivation == next_deactivation(t)
              starts == PendingStarts(t)
              ends == PendingEnds(t)
          IN /\ IF starts = {} THEN activation = <<>>
                ELSE activation = <<Least(starts)>>
             /\ IF ends = {} THEN deactivation = <<>>
                ELSE deactivation = <<Least(ends)>>
    ]_vars

\* The wait is for time 0 while a start at 1 is pending as well.
C16_Witness ==
  /\ pc = "sleep"
  /\ next_event = 0
  /\ \E i, j \in 1 .. Len(contacts) :
       /\ state[i] = "PRE" /\ StartOf(i) = 0
       /\ state[j] = "PRE" /\ StartOf(j) = 1

(***************************************************************************)
(* C17: a deactivation sets the loss of the contact's link to 100 and      *)
(* leaves its bandwidth, delay and jitter and the list of links as they    *)
(* were; an activation sets bandwidth, delay, loss and jitter of the link  *)
(* to the contact's values; no other link is modified, and no other step   *)
(* modifies a link.                                                        *)
(***************************************************************************)
Connects(link, nodes) ==
  \/ (link.node1_id = nodes[1] /\ link.node2_id = nodes[2])
  \/ (link.node1_id = nodes[2] /\ link.node2_id = nodes[1])

FirstLinkOf(i) ==
  CHOOSE k \in 1 .. Len(links) :
    /\ Connects(links[k], contacts[i].nodes)
    /\ \A j \in 1 .. k - 1 : ~Connects(links[j], contacts[i].nodes)

C17_LinkEdits ==
  [][/\ Len(links') = Len(links)
     /\ \A k \in 1 .. Len(links) :
          /\ links'[k].node1_id = links[k].node1_id
          /\ links'[k].node2_id = links[k].node2_id
     /\ links' # links => Len(calls') = Len(calls) + 1
     /\ Len(calls') = Len(calls) + 1 =>
          LET call == calls'[Len(calls')]
              c == call.contact
              k == call.link
          IN /\ HasLink(c) /\ k = FirstLinkOf(c)
             /\ \A j \in 1 .. Len(links) : j # k => links'[j] = links[j]
             /\ call.op = "activate" =>
                  /\ links'[k].options.bandwidth = contacts[c].bw
                  /\ links'[k].options.delay = contacts[c].delay
                  /\ links'[k].options.loss = contacts[c].loss
                  /\ links'[k].options.jitter = contacts[c].jitter
             /\ call.op = "deactivate" =>
                  /\ links'[k].options.loss = 100
                  /\ links'[k].options.bandwidth = links[k].options.bandwidth
                  /\ links'[k].options.delay = links[k].options.delay
                  /\ links'[k].options.jitter = links[k].options.jitter
    ]_vars

\* A contact was deactivated on one of two links: its link keeps the
\* contact's bandwidth, delay and jitter with loss 100, the other link is as
\* the session gave it.
C17_Witness ==
  /\ Len(links) = 2
  /\ calls # <<>>
  /\ LET call == calls[Len(calls)]
         k == call.link
     IN /\ call.op = "deactivate"
        /\ links[k].options = [bandwidth |-> contacts[call.contact].bw,
                               delay |-> contacts[call.contact].delay,
                               loss |-> 100,
                               jitter |-> contacts[call.contact].jitter]
        /\ links[3 - k] = Link(links[3 - k].node1_id, links[3 - k].node2_id)

(***************************************************************************)
(* C18: when every contact has 0 <= start <= end and a link for its node   *)
(* pair, a contact is set to LIVE only in the tick with cur_time = start   *)
(* and to POST only in the tick with cur_time = end, once each in a pass;  *)
(* after a tick no contact is PRE with start < cur_time and none is LIVE   *)
(* with end <= cur_time.                                                   *)
(***************************************************************************)
AllLinked == \A i \in 1 .. Len(contacts) : HasLink(i)

C18_TransitionsOnTime ==
  [][(ValidPlan /\ AllLinked) =>
       /\ \A k \in 1 .. Len(log') :
            /\ log'[k].to = "LIVE" => log'[k].time = StartOf(log'[k].contact)
            /\ log'[k].to = "POST" => log'[k].time = EndOf(log'[k].contact)
       /\ \A i \in 1 .. Len(contacts) :
            /\ Count(log', i, "LIVE") <= 1
            /\ Count(log', i, "POST") <= 1
            /\ (pc' = "loop" /\ cur_time' > StartOf(i)) => Count(log', i, "LIVE") = 1
            /\ (pc' = "loop" /\ cur_time' > EndOf(i)) => Count(log', i, "POST") = 1
       /\ pc' = "loop" =>
            \A i \in 1 .. Len(contacts) :
              /\ ~(state'[i] = "PRE" /\ StartOf(i) < cur_time')
              /\ ~(state'[i] = "LIVE" /\ EndOf(i) <= cur_time')
    ]_vars

\* In the second pass a contact that starts at 0 and ends at 1 is LIVE after
\* the tick at 0 and another one, that starts at 1, is still PRE.
C18_Witness ==
  /\ ValidPlan /\ AllLinked
  /\ pass = 1
  /\ pc = "loop"
  /\ cur_time = 0
  /\ \E i, j \in 1 .. Len(contacts) :
       /\ StartOf(i) = 0 /\ EndOf(i) = 1 /\ state[i] = "LIVE"
       /\ StartOf(j) = 1 /\ state[j] = "PRE"

(***************************************************************************)
(* C19: when every contact has 0 <= start <= end, the branch taken when    *)
(* next_activation and next_deactivation are both None, to "No more        *)
(* events" or to "Looping", is taken with every contact in state POST.     *)
(***************************************************************************)
C19_PassEndsWithAllPost ==
  [][(ValidPlan /\ pc = "loop" /\ (pc' = "done" \/ ResetStep)) =>
       \A i \in 1 .. Len(contacts) : state[i] = "POST"
    ]_vars

\* The scheduler has stopped after a plan of two contacts, both POST.
C19_Witness ==
  /\ ValidPlan
  /\ pc = "done"
  /\ Len(contacts) = 2
  /\ \A i \in 1 .. Len(contacts) : state[i] = "POST"
  /\ \E i, j \in 1 .. Len(contacts) : StartOf(i) # StartOf(j)

(***************************************************************************)
(* C20: with every contact's loss below 100, after a tick no link has      *)
(* loss = 100 while a contact on the link's node pair is LIVE.             *)
(***************************************************************************)
C20_NoLiveContactOnBlockedLink ==
  (pc = "loop" /\ \A i \in 1 .. Len(contacts) : contacts[i].loss < 100) =>
     \A k \in 1 .. Len(links) :
       links[k].options.loss = 100 =>
         \A i \in 1 .. Len(contacts) :
           Connects(links[k], contacts[i].nodes) => state[i] # "LIVE"

====
